---- MODULE Spec2Model ----
(***************************************************************************)
(* A model of guc-tuning's main.py: the pgbench report parser, the         *)
(* objective function pgbench (one trial: create project, apply client     *)
(* settings, run pgbench --initialize, parse its report, delete project)   *)
(* and the driver main (checkpoint load, gp_minimize loop with a           *)
(* CheckpointSaver callback).  gp_minimize and CheckpointSaver belong to    *)
(* scikit-optimize; their steps follow the library: points of x0 given     *)
(* without y0 are evaluated first and counted in n_calls, x0 given with y0 *)
(* is told without evaluation, and after every tell the callbacks run.     *)
(*                                                                         *)
(* Text is a sequence of tokens.  A token is a record [k, ip, fp]: k is    *)
(* the token kind (a literal piece of the report, "num" for a decimal      *)
(* matching \d+\.\d+, "NL" for a line break); ip and fp are the integer    *)
(* and the two-digit fractional part of a "num".  Scores are kept in       *)
(* hundredths of a second.                                                 *)
(***************************************************************************)
EXTENDS Integers, Sequences, FiniteSets, TLC

\* ------------------------------------------------------------------ bounds
\* n_calls of gp_minimize (1000 in main.py), scaled down.
NCalls == 2
\* How many times the process is started again after it ended.
MaxRestarts == 2
\* Candidate points the optimizer may ask for, beside the default point X0.
MaxPoint == 1
\* Trials started over the whole campaign, all runs of the process together.
MaxTrials == 4
\* Dimensions of a space when the partition is checked on its own.
MaxDims == 3

\* --------------------------------------------------------------- constants
TIMEOUT == 200

\* ------------------------------------------------------------------ tokens
Tok(kind) == [k |-> kind, ip |-> 0, fp |-> 0]
Num(i, f) == [k |-> "num", ip |-> i, fp |-> f]
NL == Tok("NL")
NoneTok == Tok("None")

\* float(v) of a captured decimal, in hundredths of a second.
Float(tok) == tok.ip * 100 + tok.fp

\* The penalty `return TIMEOUT`, in hundredths of a second.
Penalty == TIMEOUT * 100

\* The labels of the five sub-phases, in the order of the regex.
Label == <<"drop tables", "create tables", "server-side generate",
           "vacuum", "primary keys">>
Field == <<"total", "drop_tables", "create_tables", "server_side_generate",
           "vacuum", "primary_keys">>

\* ------------------------------------------------------- str.splitlines()
RECURSIVE SplitFrom(_, _, _)
SplitFrom(text, p, cur) ==
    IF p > Len(text) THEN (IF cur = <<>> THEN <<>> ELSE <<cur>>)
    ELSE IF text[p] = NL THEN <<cur>> \o SplitFrom(text, p + 1, <<>>)
    ELSE SplitFrom(text, p + 1, Append(cur, text[p]))

SplitLines(text) == SplitFrom(text, 1, <<>>)

\* ---------------------------------------------------------------- the regex
\* One item per piece of the pattern: a mandatory head, then for each
\* sub-phase an optional clause (capturing its decimal) and an optional
\* ", ", then the mandatory "\)\.".  grp is the capture group of the item's
\* decimal (0: none); the decimal is the second token of the item.
ClauseItem(i) == [opt |-> TRUE, pat |-> <<Label[i], "num", "s">>, grp |-> i + 1]
SepItem == [opt |-> TRUE, pat |-> <<",">>, grp |-> 0]
Regex ==
    << [opt |-> FALSE, pat |-> <<"done in", "num", "s", "(">>, grp |-> 1],
       ClauseItem(1), SepItem, ClauseItem(2), SepItem, ClauseItem(3), SepItem,
       ClauseItem(4), SepItem, ClauseItem(5), SepItem,
       [opt |-> FALSE, pat |-> <<")", ".">>, grp |-> 0] >>

NoMatch == [ok |-> FALSE, groups |-> <<>>]

Fits(line, pat, p) ==
    /\ p + Len(pat) - 1 <= Len(line)
    /\ \A i \in 1..Len(pat) : line[p + i - 1].k = pat[i]

\* regex.match(last_line): anchored at the start of the line, not at its
\* end; an optional item is tried present first and absent on backtracking.
RECURSIVE MatchFrom(_, _, _, _)
MatchFrom(line, j, p, g) ==
    IF j > Len(Regex) THEN [ok |-> TRUE, groups |-> g]
    ELSE LET it == Regex[j]
             g2 == IF it.grp > 0 THEN [g EXCEPT ![it.grp] = line[p + 1]] ELSE g
             taken == IF Fits(line, it.pat, p)
                      THEN MatchFrom(line, j + 1, p + Len(it.pat), g2)
                      ELSE NoMatch
         IN  IF it.opt /\ ~taken.ok THEN MatchFrom(line, j + 1, p, g) ELSE taken

RegexMatch(line) == MatchFrom(line, 1, 1, [i \in 1..6 |-> NoneTok])

\* ------------------------------------------ parse_pgbench_initialize_output
NoTimings == <<>>

Raised(kind, shown) ==
    [kind |-> "raise", err |-> kind, printed |-> shown, rec |-> NoTimings]
Returned(rec) ==
    [kind |-> "return", err |-> "None", printed |-> <<>>, rec |-> rec]

IsNotNone(v) == v # NoneTok

\* [float(v) for v in m.groups() if v is not None]
RECURSIVE Floats(_)
Floats(seq) ==
    IF seq = <<>> THEN <<>> ELSE <<Float(Head(seq))>> \o Floats(Tail(seq))

GroupValues(groups) == Floats(SelectSeq(groups, IsNotNone))

\* The six-name tuple assignment and the returned dict.
Unpack(vals) ==
    IF Len(vals) # 6 THEN Raised("ValueError", <<>>)
    ELSE Returned([total |-> vals[1], drop_tables |-> vals[2],
                   create_tables |-> vals[3], server_side_generate |-> vals[4],
                   vacuum |-> vals[5], primary_keys |-> vals[6]])

parse_pgbench_initialize_output(output) ==
    LET lines == SplitLines(output)
    IN  IF lines = <<>> THEN Raised("IndexError", <<>>)
        ELSE LET m == RegexMatch(lines[Len(lines)])
             IN  IF m.ok THEN Unpack(GroupValues(m.groups))
                 ELSE Raised("RuntimeError", output)

\* ------------------------------------------------------- report texts
\* Durations printed for the five sub-phases (1.00, 2.00, 4.00, 3.00, 5.00).
Dur == <<Num(1, 0), Num(2, 0), Num(4, 0), Num(3, 0), Num(5, 0)>>
Phases == 1..5

RECURSIVE Ascending(_)
Ascending(S) ==
    IF S = {} THEN <<>>
    ELSE LET m == CHOOSE x \in S : \A y \in S : x <= y
         IN  <<m>> \o Ascending(S \ {m})

Reverse(s) == [i \in 1..Len(s) |-> s[Len(s) + 1 - i]]

RECURSIVE Clauses(_, _, _)
Clauses(order, i, sep) ==
    IF i > Len(order) THEN <<>>
    ELSE <<Tok(Label[order[i]]), Dur[order[i]], Tok("s")>>
         \o (IF sep /\ i < Len(order) THEN <<Tok(",")>> ELSE <<>>)
         \o Clauses(order, i + 1, sep)

\* A report line: "done in <total> s (" <lead> clauses <trail> ")." <suffix>
Line(total, order, sep, lead, trail, suffix) ==
    <<Tok("done in"), total, Tok("s"), Tok("(")>> \o lead
    \o Clauses(order, 1, sep) \o trail \o <<Tok(")"), Tok(".")>> \o suffix

\* The line pgbench prints when the sub-phases S ran.
Report(total, S) == Line(total, Ascending(S), TRUE, <<>>, <<>>, <<>>)

Progress == <<Tok("text"), NL>>
FreeText == <<Tok("text")>>
Comma == <<Tok(",")>>

\* ------------------------------------------------------------ state
VARIABLES
    dpc,            \* position of main / gp_minimize
    x0, y0,         \* warm start handed to gp_minimize
    result,         \* the optimizer's history: [x_iters, func_vals]
    n_calls, n,     \* calls left for the loop, loop counter
    next_x, next_y, \* the point asked and the value the objective returned
    checkpoint,     \* checkpoint.pkl: [exists, res]
    apc,            \* position of pgbench (the objective function)
    project_id,     \* the project of the running invocation
    exc,            \* exception pending in pgbench's try statement
    retval,         \* value of the return statement reached in pgbench
    stderrExists, stdoutExists, stderrText,   \* stderr.txt, stdout.txt
    timings,        \* outcome of parse_pgbench_initialize_output
    live,           \* projects that exist at the remote service
    delCalls,       \* delCalls[id]: delete_project calls made for project id
    nCreate,        \* create_project calls
    nTrials,        \* invocations of pgbench
    restarts,       \* times the process was started again
    prev,           \* history the previous process held when it ended
    evals,          \* invocations of pgbench that returned, this process
    space,          \* space.py: [dims, allowed]
    server_settings, client_settings,   \* the two dicts pgbench fills
    inv             \* record of the current or latest invocation of pgbench

vars == <<dpc, x0, y0, result, n_calls, n, next_x, next_y, checkpoint, apc,
          project_id, exc, retval, stderrExists, stdoutExists, stderrText,
          timings, live, delCalls, nCreate, nTrials, restarts, prev, evals, inv,
          space, server_settings, client_settings>>

driverVars == <<x0, y0, result, n_calls, n, next_x, next_y, checkpoint,
                restarts, prev>>
fileVars == <<stderrExists, stdoutExists, stderrText>>
remoteVars == <<live, delCalls, nCreate>>
settingVars == <<space, server_settings, client_settings>>

\* X0 = [s[1] for s in SPACE]: the default point.
X0 == 0
Points == 0..MaxPoint

\* The OptimizeResult gp_minimize builds after each tell: the history and
\* the best of it, x = x_iters[argmin(func_vals)], fun = min(func_vals);
\* argmin is the first index of the minimum.
EmptyResult == [x_iters |-> <<>>, func_vals |-> <<>>, x |-> X0, fun |-> 0]
ArgMin(ys) ==
    CHOOSE i \in 1..Len(ys) :
        \A j \in 1..Len(ys) : ys[j] >= ys[i] /\ (j < i => ys[j] > ys[i])
create_result(xs, ys) ==
    [x_iters |-> xs, func_vals |-> ys, x |-> xs[ArgMin(ys)],
     fun |-> ys[ArgMin(ys)]]
NoCheckpoint == [exists |-> FALSE, res |-> EmptyResult]
NoY0 == [none |-> TRUE, vals |-> <<>>]
NotParsed == [kind |-> "none", err |-> "None", printed |-> <<>>,
              rec |-> NoTimings]
NoInv == [point |-> X0, steps |-> <<>>, prov |-> "none", failed |-> "none",
          tear |-> "none", out |-> "none", val |-> 0, err |-> "None"]

\* -------------------------------------------------- outputs of the tools
\* Totals pgbench reports in the campaign (12.50 s and 7.05 s).
RunTotals == {Num(12, 50), Num(7, 5)}

\* How long a pgbench process may run: the totals above, exactly the limit
\* (200.00 s), and beyond it (250.00 s).
RunTimes == RunTotals \cup {Num(200, 0), Num(250, 0)}

\* subprocess.run(..., timeout=TIMEOUT): a process that runs longer than
\* TIMEOUT seconds is killed and TimeoutExpired is raised.
TimedOutNever(elapsed) == FALSE
TimedOut(elapsed) == Float(elapsed) > Penalty

\* What a pgbench run that took time t and exits with status 0 may leave in
\* stderr.txt: progress lines and the report of all five steps of
\* --init-steps dtGvp, a report of fewer steps, text that is no report, or
\* nothing. The total pgbench reports is time it measured within the run,
\* at most t; the texts carry the largest, t itself.
OkTexts(t) ==
    {Progress \o Report(t, Phases) \o <<NL>>,
     Progress \o Report(t, {1, 2, 4}) \o <<NL>>,
     Progress \o FreeText \o <<NL>>,
     <<>>}

\* subprocess.run(..., timeout=TIMEOUT, check=True): nonzero exit status,
\* timeout expiry, or the executable cannot be started.
SubprocessErrors == {"CalledProcessError", "TimeoutExpired", "FileNotFoundError"}

\* `except Exception`: every exception the try block raises here derives
\* from Exception.
CaughtRuntimeErrorOnly(e) == e = "RuntimeError"
Caught(e) ==
    e \in {"RuntimeError", "ValueError", "IndexError",
           "CalledProcessError", "TimeoutExpired", "FileNotFoundError"}

\* ------------------------------------------------ the option partition
\* space.py: the names of the declared dimensions, in order, and the names
\* that are applied at project creation.
OptionNames == {"shared_buffers", "work_mem", "maintenance_work_mem"}
DIMENTIONS == <<"shared_buffers", "work_mem", "maintenance_work_mem">>
ALLOWED_SERVER_SETTINGS == {"shared_buffers", "max_connections"}

\* A dict: its items in insertion order, the keys unique.
EmptyDict == <<>>
Keys(d) == {d[i].k : i \in 1..Len(d)}
SetItem(d, key, value) ==
    IF key \in Keys(d)
    THEN [i \in 1..Len(d) |->
             IF d[i].k = key THEN [k |-> key, v |-> value] ELSE d[i]]
    ELSE Append(d, [k |-> key, v |-> value])

\* The value of point x in dimension i, and str(value).
Coord(x, i) == [point |-> x, dim |-> i]
Str(value) == [str |-> value]

\* @use_named_args(DIMENTIONS): options = {dim.name: value for dim, value
\* in zip(dimensions, x)}.
RECURSIVE NamedArgsFrom(_, _, _, _)
NamedArgsFrom(dims, x, i, d) ==
    IF i > Len(dims) THEN d
    ELSE NamedArgsFrom(dims, x, i + 1, SetItem(d, dims[i], Coord(x, i)))
NamedArgs(dims, x) == NamedArgsFrom(dims, x, 1, EmptyDict)

\* The loop body of lines 113-117 without its else: an allowed name is
\* written to both dicts.
PartitionStepWithoutElse(acc, item, allowed) ==
    [server |-> IF item.k \in allowed
                THEN SetItem(acc.server, item.k, Str(item.v))
                ELSE acc.server,
     client |-> SetItem(acc.client, item.k, Str(item.v))]

\* lines 113-117: value = str(value); the name goes to server_settings if
\* it is in ALLOWED_SERVER_SETTINGS, to client_settings otherwise.
PartitionStep(acc, item, allowed) ==
    IF item.k \in allowed
    THEN [server |-> SetItem(acc.server, item.k, Str(item.v)),
          client |-> acc.client]
    ELSE [server |-> acc.server,
          client |-> SetItem(acc.client, item.k, Str(item.v))]

\* lines 110-117: both dicts start empty, the loop visits options.items().
RECURSIVE PartitionFrom(_, _, _, _)
PartitionFrom(options, i, acc, allowed) ==
    IF i > Len(options) THEN acc
    ELSE PartitionFrom(options, i + 1,
                       PartitionStep(acc, options[i], allowed), allowed)
Partition(options, allowed) ==
    PartitionFrom(options, 1, [server |-> EmptyDict, client |-> EmptyDict],
                  allowed)

\* ------------------------------------------------------------------ Init
Init ==
    /\ dpc = "boot" /\ apc = "idle"
    /\ x0 = <<>> /\ y0 = NoY0 /\ result = EmptyResult
    /\ n_calls = NCalls /\ n = 0 /\ next_x = X0 /\ next_y = 0
    /\ checkpoint = NoCheckpoint
    /\ project_id = 0 /\ exc = "None" /\ retval = 0
    /\ stderrExists = FALSE /\ stdoutExists = FALSE /\ stderrText = <<>>
    /\ timings = NotParsed
    /\ live = {} /\ delCalls = <<>> /\ nCreate = 0 /\ nTrials = 0
    /\ restarts = 0 /\ prev = EmptyResult /\ evals = 0 /\ inv = NoInv
    /\ space = [dims |-> DIMENTIONS, allowed |-> ALLOWED_SERVER_SETTINGS]
    /\ server_settings = EmptyDict /\ client_settings = EmptyDict

\* ------------------------------------------------- pgbench, the objective
\* gp_minimize calls func(point): pgbench starts (lines 109-117).
Invoke(point) ==
    /\ apc = "idle" /\ nTrials < MaxTrials
    /\ apc' = "create_project"
    /\ nTrials' = nTrials + 1
    /\ inv' = [NoInv EXCEPT !.point = point, !.out = "running"]
    /\ exc' = "None" /\ retval' = 0 /\ timings' = NotParsed /\ project_id' = 0
    /\ LET part == Partition(NamedArgs(space.dims, point), space.allowed)
       IN  /\ server_settings' = part.server
           /\ client_settings' = part.client
    /\ UNCHANGED space

\* An exception leaves pgbench: gp_minimize and main do not catch it, the
\* process ends with a traceback.
Uncaught == dpc' = "crashed" /\ prev' = result

Step(name) == Append(inv.steps, name)

\* line 119, create_project (lines 26-52), outside the try statement.
CreateProject ==
    /\ apc = "create_project"
    /\ nCreate' = nCreate + 1
    /\ \E ok \in BOOLEAN :
        IF ok
        THEN /\ project_id' = Len(delCalls) + 1
             /\ live' = live \cup {Len(delCalls) + 1}
             /\ delCalls' = Append(delCalls, 0)
             /\ apc' = "psql"
             /\ inv' = [inv EXCEPT !.steps = Step("create_project"), !.prov = "ok"]
             /\ UNCHANGED <<dpc, prev>>
        ELSE /\ apc' = "idle"
             /\ inv' = [inv EXCEPT !.steps = Step("create_project"),
                                   !.prov = "failed", !.out = "raise",
                                   !.err = "RuntimeError"]
             /\ Uncaught
             /\ UNCHANGED <<project_id, live, delCalls>>
    /\ UNCHANGED <<x0, y0, result, n_calls, n, next_x, next_y, checkpoint,
                   restarts, exc, retval, timings, fileVars, nTrials, evals>>
    /\ UNCHANGED settingVars

\* RunPsql as it would be with check=False: the exit status of psql is
\* ignored and the benchmark is started all the same.
RunPsqlUnchecked ==
    /\ apc = "psql"
    /\ \E o \in {"ok"} \cup SubprocessErrors :
        /\ apc' = "pgbench"
        /\ inv' = [inv EXCEPT !.steps = Step("psql"),
                              !.failed = IF o = "ok" THEN @ ELSE "psql"]
        /\ UNCHANGED exc
    /\ UNCHANGED <<dpc, driverVars, project_id, retval, timings, fileVars,
                   remoteVars, nTrials, evals>>
    /\ UNCHANGED settingVars

\* lines 125-130: the ALTER DATABASE statement through psql, check=True.
RunPsql ==
    /\ apc = "psql"
    /\ \E o \in {"ok"} \cup SubprocessErrors :
        IF o = "ok"
        THEN /\ apc' = "pgbench"
             /\ inv' = [inv EXCEPT !.steps = Step("psql")]
             /\ UNCHANGED exc
        ELSE /\ apc' = "except"
             /\ exc' = o
             /\ inv' = [inv EXCEPT !.steps = Step("psql"), !.failed = "psql"]
    /\ UNCHANGED <<dpc, driverVars, project_id, retval, timings, fileVars,
                   remoteVars, nTrials, evals>>
    /\ UNCHANGED settingVars

\* lines 132-148: both files are opened for writing, pgbench --initialize
\* runs with its streams captured, timeout=TIMEOUT, check=True: the
\* executable cannot be started, or the process runs for some time and is
\* killed at the limit, or exits with a nonzero or a zero status.
RunPgbench ==
    /\ apc = "pgbench"
    /\ stderrExists' = TRUE /\ stdoutExists' = TRUE
    /\ \E status \in {"ok", "CalledProcessError", "FileNotFoundError"},
          elapsed \in RunTimes :
        LET o == IF status # "FileNotFoundError" /\ TimedOut(elapsed)
                 THEN "TimeoutExpired" ELSE status
        IN
        IF o = "ok"
        THEN /\ stderrText' \in OkTexts(elapsed)
             /\ apc' = "parse"
             /\ inv' = [inv EXCEPT !.steps = Step("pgbench")]
             /\ UNCHANGED exc
        ELSE /\ stderrText' = Progress
             /\ apc' = "except"
             /\ exc' = o
             /\ inv' = [inv EXCEPT !.steps = Step("pgbench"), !.failed = "pgbench"]
    /\ UNCHANGED <<dpc, driverVars, project_id, retval, timings,
                   remoteVars, nTrials, evals>>
    /\ UNCHANGED settingVars

\* lines 149-150: parse stderr.txt, return timings["total"].
ParseReport ==
    /\ apc = "parse"
    /\ LET t == parse_pgbench_initialize_output(stderrText)
       IN  /\ timings' = t
           /\ IF t.kind = "return"
              THEN /\ retval' = t.rec.total
                   /\ apc' = "finally"
                   /\ inv' = [inv EXCEPT !.steps = Step("parse")]
                   /\ UNCHANGED exc
              ELSE /\ exc' = t.err
                   /\ apc' = "except"
                   /\ inv' = [inv EXCEPT !.steps = Step("parse"), !.failed = "parse"]
                   /\ UNCHANGED retval
    /\ UNCHANGED <<dpc, driverVars, project_id, fileVars, remoteVars,
                   nTrials, evals>>
    /\ UNCHANGED settingVars

\* Except as it would be with delete_project at the end of the try body
\* instead of in finally: after a failure the project is not deleted.
ExceptWithoutTeardown ==
    /\ apc = "except"
    /\ retval' = Penalty /\ exc' = "None"
    /\ apc' = "unlink"
    /\ UNCHANGED <<dpc, driverVars, project_id, timings, fileVars, remoteVars,
                   nTrials, evals, inv>>
    /\ UNCHANGED settingVars

\* lines 151-153: print(exc); return TIMEOUT.
Except ==
    /\ apc = "except"
    /\ IF Caught(exc)
       THEN retval' = Penalty /\ exc' = "None"
       ELSE UNCHANGED <<retval, exc>>
    /\ apc' = "finally"
    /\ UNCHANGED <<dpc, driverVars, project_id, timings, fileVars, remoteVars,
                   nTrials, evals, inv>>
    /\ UNCHANGED settingVars

\* The finally block as it would be without line 155: no delete_project
\* call is made.
DeleteProjectNotCalled ==
    /\ apc = "finally"
    /\ apc' = "unlink"
    /\ UNCHANGED <<dpc, driverVars, project_id, exc, retval, timings, fileVars,
                   remoteVars, nTrials, evals, inv>>
    /\ UNCHANGED settingVars

\* lines 154-155: delete_project (lines 55-64), first statement of finally.
\* When it raises, the rest of the finally block is skipped and its
\* exception replaces the pending return.
DeleteProject ==
    /\ apc = "finally"
    /\ delCalls' = [delCalls EXCEPT ![project_id] = @ + 1]
    /\ \E ok \in BOOLEAN :
        IF ok
        THEN /\ live' = live \ {project_id}
             /\ apc' = "unlink"
             /\ inv' = [inv EXCEPT !.steps = Step("delete_project"), !.tear = "ok"]
             /\ UNCHANGED <<dpc, prev>>
        ELSE /\ apc' = "idle"
             /\ inv' = [inv EXCEPT !.steps = Step("delete_project"),
                                   !.tear = "failed", !.out = "raise",
                                   !.err = "RuntimeError"]
             /\ Uncaught
             /\ UNCHANGED live
    /\ UNCHANGED <<x0, y0, result, n_calls, n, next_x, next_y, checkpoint,
                   restarts, project_id, exc, retval, timings, fileVars,
                   nCreate, nTrials, evals>>
    /\ UNCHANGED settingVars

\* lines 156-157: unlink both files (missing_ok); then the pending return
\* value goes to the caller, or the pending exception propagates.
Unlink ==
    /\ apc = "unlink"
    /\ stderrExists' = FALSE /\ stdoutExists' = FALSE /\ stderrText' = <<>>
    /\ apc' = "idle"
    /\ IF exc # "None"
       THEN /\ inv' = [inv EXCEPT !.steps = Step("unlink"), !.out = "raise",
                                  !.err = exc]
            /\ Uncaught
            /\ UNCHANGED <<y0, next_y, evals>>
       ELSE /\ inv' = [inv EXCEPT !.steps = Step("unlink"), !.out = "return",
                                  !.val = retval]
            /\ evals' = evals + 1
            /\ UNCHANGED prev
            /\ IF dpc = "map_x0_wait"
               THEN /\ y0' = [y0 EXCEPT !.vals = Append(@, retval)]
                    /\ dpc' = "map_x0"
                    /\ UNCHANGED next_y
               ELSE /\ next_y' = retval
                    /\ dpc' = "tell"
                    /\ UNCHANGED y0
    /\ UNCHANGED <<x0, result, n_calls, n, next_x, checkpoint, restarts,
                   project_id, exc, retval, timings, remoteVars, nTrials>>
    /\ UNCHANGED settingVars

\* ------------------------------------------------------- main, gp_minimize
adapterIdle == <<apc, project_id, exc, retval, timings, fileVars, remoteVars,
                 nTrials, inv>>

\* lines 165-166: x0 = res.x_iters, y0 = res.func_vals.
LoadX0(res) == res.x_iters
LoadY0Dropped(res) == NoY0
LoadY0(res) == [none |-> FALSE, vals |-> res.func_vals]

\* CheckpointSaver(checkpoint): called with the result after every tell,
\* it dumps the whole result over checkpoint.pkl.
CheckpointSaverNotRun(file, res) == file
CheckpointSaver(file, res) == [exists |-> TRUE, res |-> res]

\* MainStart as it would be without the checkpoint load of lines 162-166:
\* every process starts from the default point.
MainStartWithoutLoad ==
    /\ dpc = "boot"
    /\ x0' = <<X0>> /\ y0' = NoY0
    /\ dpc' = "map_x0"
    /\ n_calls' = NCalls /\ n' = 0
    /\ UNCHANGED <<result, next_x, next_y, checkpoint, restarts, prev, evals,
                   adapterIdle>>
    /\ UNCHANGED settingVars

\* lines 161-169 and the start of gp_minimize (line 172): choose the warm
\* start; a given y0 is told at once, a missing one is evaluated first.
MainStart ==
    /\ dpc = "boot"
    /\ IF checkpoint.exists
       THEN /\ x0' = LoadX0(checkpoint.res)
            /\ y0' = LoadY0(checkpoint.res)
       ELSE /\ x0' = <<X0>>
            /\ y0' = NoY0
    /\ dpc' = IF y0'.none THEN "map_x0" ELSE "tell_x0"
    /\ n_calls' = NCalls /\ n' = 0
    /\ UNCHANGED <<result, next_x, next_y, checkpoint, restarts, prev, evals,
                   adapterIdle>>
    /\ UNCHANGED settingVars

\* gp_minimize, y0 = list(map(func, x0)): the next point of x0 is evaluated.
MapX0 ==
    /\ dpc = "map_x0" /\ Len(y0.vals) < Len(x0)
    /\ Invoke(x0[Len(y0.vals) + 1])
    /\ dpc' = "map_x0_wait"
    /\ UNCHANGED <<driverVars, evals, fileVars, remoteVars>>

\* gp_minimize: n_calls -= len(y0) when y0 was evaluated here; then
\* optimizer.tell(x0, y0) and the callbacks.
TellX0 ==
    /\ \/ dpc = "tell_x0"
       \/ dpc = "map_x0" /\ Len(y0.vals) = Len(x0)
    /\ n_calls' = IF dpc = "map_x0" THEN n_calls - Len(y0.vals) ELSE n_calls
    /\ result' = create_result(x0, y0.vals)
    /\ checkpoint' = CheckpointSaver(checkpoint, result')
    /\ dpc' = "loop"
    /\ UNCHANGED <<x0, y0, n, next_x, next_y, restarts, prev, evals, adapterIdle>>
    /\ UNCHANGED settingVars

\* gp_minimize, for n in range(n_calls): next_x = optimizer.ask();
\* next_y = func(next_x).
Ask ==
    /\ dpc = "loop" /\ n < n_calls
    /\ \E p \in Points :
        /\ next_x' = p
        /\ Invoke(p)
    /\ dpc' = "loop_wait"
    /\ UNCHANGED <<x0, y0, result, n_calls, n, next_y, checkpoint, restarts,
                   prev, evals, fileVars, remoteVars>>

\* gp_minimize: result = optimizer.tell(next_x, next_y); the callbacks run.
Tell ==
    /\ dpc = "tell"
    /\ result' = create_result(Append(result.x_iters, next_x),
                                Append(result.func_vals, next_y))
    /\ checkpoint' = CheckpointSaver(checkpoint, result')
    /\ n' = n + 1
    /\ dpc' = "loop"
    /\ UNCHANGED <<x0, y0, n_calls, next_x, next_y, restarts, prev, evals,
                   adapterIdle>>
    /\ UNCHANGED settingVars

\* lines 182-184: the loop is over; plot_convergence and print(result).
Finish ==
    /\ dpc = "loop" /\ n >= n_calls
    /\ dpc' = "exhausted"
    /\ prev' = result
    /\ UNCHANGED <<x0, y0, result, n_calls, n, next_x, next_y, checkpoint,
                   restarts, evals, adapterIdle>>
    /\ UNCHANGED settingVars

\* The program is started again after it ended: memory is fresh, the files
\* and the remote projects are what the last process left.
Restart ==
    /\ dpc \in {"crashed", "exhausted"} /\ restarts < MaxRestarts
    /\ restarts' = restarts + 1
    /\ dpc' = "boot" /\ apc' = "idle"
    /\ x0' = <<>> /\ y0' = NoY0 /\ result' = EmptyResult
    /\ n_calls' = NCalls /\ n' = 0 /\ next_x' = X0 /\ next_y' = 0
    /\ project_id' = 0 /\ exc' = "None" /\ retval' = 0 /\ timings' = NotParsed
    /\ evals' = 0
    /\ UNCHANGED <<checkpoint, prev, fileVars, remoteVars, nTrials, inv>>
    /\ UNCHANGED settingVars

Next ==
    \/ MainStart \/ MapX0 \/ TellX0 \/ Ask \/ Tell \/ Finish \/ Restart
    \/ CreateProject \/ RunPsql \/ RunPgbench \/ ParseReport \/ Except
    \/ DeleteProject \/ Unlink

Spec == Init /\ [][Next]_vars

\* ------------------------------------------------- the parser on its own
\* parse_pgbench_initialize_output applied to texts of every shape: the
\* reports of every subset of the sub-phases, alone or after progress
\* lines, and lines that depart from the report's grammar.
ParserTotals == {Num(12, 50), Num(0, 7)}

Reports == {Report(t, S) : t \in ParserTotals, S \in SUBSET Phases}

Departures ==
    LET t == Num(12, 50)
    IN  UNION {
          { Line(t, Ascending(S), FALSE, <<>>, <<>>, <<>>),   \* no ", "
            Line(t, Ascending(S), TRUE, <<>>, Comma, <<>>),   \* trailing ", "
            Line(t, Ascending(S), TRUE, Comma, <<>>, <<>>),   \* leading ", "
            Line(t, Ascending(S), TRUE, <<>>, <<>>, FreeText),\* text after ")."
            Line(t, Reverse(Ascending(S)), TRUE, <<>>, <<>>, <<>>),
            Line(t, Ascending(S) \o Ascending(S), TRUE, <<>>, <<>>, <<>>),
            Line(Tok("int"), Ascending(S), TRUE, <<>>, <<>>, <<>>),
            SubSeq(Report(t, S), 1, Len(Report(t, S)) - 1)    \* no final "."
          } : S \in SUBSET Phases }

ParserInputs ==
    Reports
    \cup {Progress \o r \o <<NL>> : r \in Reports}
    \cup Departures
    \cup {FreeText, <<>>, Report(Num(12, 50), Phases) \o <<NL, NL>>,
          Report(Num(12, 50), Phases) \o <<NL>> \o FreeText}

ParserInit ==
    /\ dpc = "harness" /\ apc = "harness"
    /\ x0 = <<>> /\ y0 = NoY0 /\ result = EmptyResult
    /\ n_calls = NCalls /\ n = 0 /\ next_x = X0 /\ next_y = 0
    /\ checkpoint = NoCheckpoint
    /\ project_id = 0 /\ exc = "None" /\ retval = 0
    /\ stderrExists = FALSE /\ stdoutExists = FALSE
    /\ stderrText \in ParserInputs
    /\ timings = NotParsed
    /\ live = {} /\ delCalls = <<>> /\ nCreate = 0 /\ nTrials = 0
    /\ restarts = 0 /\ prev = EmptyResult /\ evals = 0 /\ inv = NoInv
    /\ space = [dims |-> DIMENTIONS, allowed |-> ALLOWED_SERVER_SETTINGS]
    /\ server_settings = EmptyDict /\ client_settings = EmptyDict

\* timings = parse_pgbench_initialize_output(text)
ParserCall ==
    /\ apc = "harness" /\ timings = NotParsed
    /\ timings' = parse_pgbench_initialize_output(stderrText)
    /\ UNCHANGED <<dpc, driverVars, apc, project_id, exc, retval, fileVars,
                   remoteVars, nTrials, evals, inv>>
    /\ UNCHANGED settingVars

\* The next text is handed to the parser.
ParserAgain ==
    /\ apc = "harness" /\ timings # NotParsed
    /\ stderrText' \in ParserInputs
    /\ timings' = NotParsed
    /\ UNCHANGED <<dpc, driverVars, apc, project_id, exc, retval,
                   stderrExists, stdoutExists, remoteVars, nTrials, evals, inv>>
    /\ UNCHANGED settingVars

ParserNext == ParserCall \/ ParserAgain

ParserSpec == ParserInit /\ [][ParserNext]_vars

\* ---------------------------------------------- the partition on its own
\* The start of pgbench (lines 110-117) under every space of up to MaxDims
\* dimensions named from OptionNames and every set of allowed names.
Spaces ==
    {[dims |-> d, allowed |-> a] :
        d \in UNION {[1..k -> OptionNames] : k \in 0..MaxDims},
        a \in SUBSET (OptionNames \cup ALLOWED_SERVER_SETTINGS)}

PartitionInit ==
    /\ dpc = "harness" /\ apc = "idle"
    /\ x0 = <<>> /\ y0 = NoY0 /\ result = EmptyResult
    /\ n_calls = NCalls /\ n = 0 /\ next_x = X0 /\ next_y = 0
    /\ checkpoint = NoCheckpoint
    /\ project_id = 0 /\ exc = "None" /\ retval = 0
    /\ stderrExists = FALSE /\ stdoutExists = FALSE /\ stderrText = <<>>
    /\ timings = NotParsed
    /\ live = {} /\ delCalls = <<>> /\ nCreate = 0 /\ nTrials = 0
    /\ restarts = 0 /\ prev = EmptyResult /\ evals = 0 /\ inv = NoInv
    /\ space \in Spaces
    /\ server_settings = EmptyDict /\ client_settings = EmptyDict

\* pgbench is called with a point and runs up to line 117.
PartitionCall ==
    /\ dpc = "harness"
    /\ \E point \in Points : Invoke(point)
    /\ UNCHANGED <<dpc, driverVars, fileVars, remoteVars, evals>>

\* The call is dropped before line 119; pgbench can be called again.
PartitionAgain ==
    /\ dpc = "harness" /\ apc = "create_project"
    /\ apc' = "idle"
    /\ UNCHANGED <<dpc, driverVars, project_id, exc, retval, timings,
                   fileVars, remoteVars, nTrials, evals, inv, settingVars>>

PartitionNext == PartitionCall \/ PartitionAgain

PartitionSpec == PartitionInit /\ [][PartitionNext]_vars

\* ======================================================================
\* Properties
\* ======================================================================
RECURSIVE Sum(_)
Sum(seq) == IF seq = <<>> THEN 0 ELSE Head(seq) + Sum(Tail(seq))

\* delete_project calls made so far; create_project calls that succeeded.
nDelete == Sum(delCalls)
nProvisioned == Len(delCalls)

\* The step was attempted in the current or latest invocation of pgbench.
Did(step) == \E i \in DOMAIN inv.steps : inv.steps[i] = step

\* No invocation of pgbench is running, and one has ended.
Ended == apc = "idle" /\ inv.out \in {"return", "raise"}

\* C1 as stated: whenever no trial is running, after N trials the number of
\* delete_project calls equals the number of create_project calls and both
\* equal N.
C1_DeleteCallsEqualCreateCalls ==
    apc = "idle" => nDelete = nCreate /\ nCreate = nTrials

\* C1 as amended: whenever no trial is running, after N trials there have
\* been N create_project calls, and the delete_project calls are exactly one
\* for each project that create_project provisioned (none for a trial whose
\* create_project failed); while a trial runs no project has more than one.
C1_DeleteOncePerProvisioned ==
    /\ \A id \in DOMAIN delCalls : delCalls[id] <= 1
    /\ apc = "idle" =>
        /\ nCreate = nTrials
        /\ nDelete = nProvisioned
        /\ \A id \in DOMAIN delCalls : delCalls[id] = 1

\* C1 witness: a second or later trial ended after its benchmark failed, and
\* an earlier trial failed to provision.
C1_Witness ==
    /\ Ended /\ nTrials >= 2 /\ inv.failed = "pgbench" /\ inv.tear = "ok"
    /\ nCreate > nProvisioned

\* C2 as stated: when create_project fails, pgbench returns the penalty
\* TIMEOUT and raises nothing to the driver.
C2_ProvisionFailureReturnsPenalty ==
    inv.prov = "failed" =>
        inv.out = "return" /\ inv.val = Penalty /\ dpc # "crashed"

\* C3: when provisioning and teardown succeeded and the configuration
\* statement, the benchmark or the parse failed, whatever the exception,
\* pgbench returned exactly the penalty TIMEOUT to gp_minimize and the
\* driver saw no exception.
C3_FailureReturnsPenalty ==
    (Ended /\ inv.prov = "ok" /\ inv.tear = "ok" /\ inv.failed # "none") =>
        /\ inv.out = "return" /\ inv.val = Penalty /\ inv.val = TIMEOUT * 100
        /\ dpc # "crashed"
        /\ dpc = "tell" => next_y = Penalty
        /\ dpc = "map_x0" => y0.vals[Len(y0.vals)] = Penalty

\* C3 witness: a trial whose benchmark timed out handed the penalty to the
\* driver.
C3_Witness ==
    /\ Ended /\ inv.failed = "pgbench" /\ inv.tear = "ok"
    /\ dpc = "tell" /\ next_y = Penalty

\* C4 as stated: a failure of delete_project does not abort the trial or the
\* campaign; pgbench still returns the score it had computed.
C4_TeardownFailureDoesNotAbort ==
    inv.tear = "failed" =>
        inv.out = "return" /\ inv.val = retval /\ dpc # "crashed"

\* C5 as stated: after an invocation that reached the benchmark has ended,
\* on whatever path, stdout.txt and stderr.txt do not exist.
C5_TempFilesReleased ==
    (Ended /\ Did("pgbench")) => ~stderrExists /\ ~stdoutExists

\* C6 as stated: when provisioning, configuration, benchmark and parsing all
\* succeeded, pgbench returns the total of the report, not the penalty.
C6_SuccessReturnsTotal ==
    (Ended /\ inv.prov = "ok" /\ inv.failed = "none" /\ Did("parse")
           /\ timings.kind = "return") =>
        inv.out = "return" /\ inv.val = timings.rec.total

\* ------------------------------------------------------------ the parser
\* The report's grammar, read strictly: "done in <total> s (" clauses ")."
\* with the clauses separated by ", ", their labels in canonical order, none
\* twice, and nothing after the final ".".
PhaseOf(kind) ==
    IF \E i \in Phases : Label[i] = kind
    THEN CHOOSE i \in Phases : Label[i] = kind
    ELSE 0

RECURSIVE ClauseList(_, _, _)
ClauseList(mid, p, after) ==
    /\ p + 2 <= Len(mid)
    /\ PhaseOf(mid[p].k) > after
    /\ mid[p + 1].k = "num" /\ mid[p + 2].k = "s"
    /\ \/ p + 2 = Len(mid)
       \/ /\ p + 3 <= Len(mid) /\ mid[p + 3].k = ","
          /\ ClauseList(mid, p + 4, PhaseOf(mid[p].k))

Conforms(line) ==
    /\ Len(line) >= 6
    /\ line[1].k = "done in" /\ line[2].k = "num"
    /\ line[3].k = "s" /\ line[4].k = "("
    /\ line[Len(line) - 1].k = ")" /\ line[Len(line)].k = "."
    /\ LET mid == SubSeq(line, 5, Len(line) - 2)
       IN  mid = <<>> \/ ClauseList(mid, 1, 0)

Parsed == apc = "harness" /\ timings # NotParsed
LastLine == SplitLines(stderrText)[Len(SplitLines(stderrText))]
HasLine == SplitLines(stderrText) # <<>>

SubPhase(rec, i) ==
    CASE i = 1 -> rec.drop_tables
      [] i = 2 -> rec.create_tables
      [] i = 3 -> rec.server_side_generate
      [] i = 4 -> rec.vacuum
      [] i = 5 -> rec.primary_keys

\* C7 as stated: for every subset S of the five sub-phases, the report of S
\* parses to a record whose total and present sub-phases are the durations of
\* the line and whose absent sub-phases hold no duration.
C7_ParsesEverySubset ==
    \A t \in ParserTotals, S \in SUBSET Phases :
        (Parsed /\ HasLine /\ LastLine = Report(t, S)) =>
            /\ timings.kind = "return"
            /\ timings.rec.total = Float(t)
            /\ \A i \in Phases :
                IF i \in S THEN SubPhase(timings.rec, i) = Float(Dur[i])
                ELSE SubPhase(timings.rec, i) \notin Nat

\* C8 as stated: for every text whose last line does not conform to the
\* grammar the parser prints the text and raises RuntimeError; it never
\* returns a record.
C8_RejectsNonConforming ==
    (Parsed /\ HasLine /\ ~Conforms(LastLine)) =>
        /\ timings.kind = "raise"
        /\ timings.err = "RuntimeError"
        /\ timings.printed = stderrText

\* --------------------------------------------------------- the checkpoint
\* This process started from a checkpoint: it is not the first process and
\* the one before it ended holding a history.
Resumed == restarts > 0 /\ prev # EmptyResult /\ dpc # "boot"

Prefix(a, b) == Len(a) <= Len(b) /\ SubSeq(b, 1, Len(a)) = a

\* Trials whose call of pgbench has returned and whose value the process
\* holds: the loaded ones and those of this process.
Held ==
    IF dpc \in {"map_x0", "map_x0_wait", "tell_x0"} THEN Len(y0.vals)
    ELSE Len(result.func_vals) + (IF dpc = "tell" THEN 1 ELSE 0)
Persisted == Len(checkpoint.res.func_vals)

\* C9: a process restarted from the checkpoint of N trials is given exactly
\* the N points and N results the process before it held, in order, as x0
\* and y0; it evaluates none of them again; every evaluation it makes adds
\* one entry after the N loaded ones, the first being trial N+1.
C9_ResumeLoadsHistory ==
    Resumed =>
        /\ dpc \notin {"map_x0", "map_x0_wait"}
        /\ dpc = "tell_x0" =>
            /\ x0 = prev.x_iters /\ ~y0.none /\ y0.vals = prev.func_vals
            /\ evals = 0
        /\ dpc \in {"loop", "loop_wait", "tell"} =>
            /\ Prefix(prev.x_iters, result.x_iters)
            /\ Prefix(prev.func_vals, result.func_vals)
            /\ Held = Len(prev.func_vals) + evals
            /\ checkpoint.exists
            /\ Prefix(prev.func_vals, checkpoint.res.func_vals)

\* C9 witness: a process resumed from a checkpoint of one trial or more has
\* had its first evaluation return; it is about to be told as the next entry.
C9_Witness ==
    /\ Resumed /\ dpc = "tell" /\ evals = 1
    /\ Len(prev.func_vals) >= 1 /\ Len(result.func_vals) = Len(prev.func_vals)

\* C10: the trials that have returned are never more than one ahead of the
\* entries of the checkpoint, and are level with them whenever a trial is
\* in flight.
C10_CheckpointLagsAtMostOne ==
    /\ Held - Persisted <= 1
    /\ dpc \in {"map_x0_wait", "loop_wait"} => Held = Persisted

\* C10 witness: a trial has returned and is not yet in the checkpoint, which
\* holds the trials before it.
C10_Witness == dpc = "tell" /\ Persisted >= 1 /\ Held = Persisted + 1

\* C11: the checkpoint only grows: once checkpoint.pkl exists, every step of
\* the campaign, restarts included, leaves it in place with the history it
\* held as a prefix of the history it holds next; no entry is rewritten,
\* reordered or dropped.
C11_CheckpointAppendOnly ==
    [][checkpoint.exists =>
          /\ checkpoint'.exists
          /\ Prefix(checkpoint.res.x_iters, checkpoint'.res.x_iters)
          /\ Prefix(checkpoint.res.func_vals, checkpoint'.res.func_vals)]_vars

\* C11 witness: a process resumed from a checkpoint of one trial or more has
\* written a checkpoint that holds more trials.
C11_Witness ==
    /\ Resumed /\ dpc = "loop" /\ Len(prev.func_vals) >= 1
    /\ Len(checkpoint.res.func_vals) > Len(prev.func_vals)

\* C12: a process that started fresh (no checkpoint) performs exactly NCalls
\* evaluations of pgbench, the default point first; an evaluation that
\* returned the penalty counts like any other; the process never ends in any
\* other way than by exhausting the budget, and once exhausted it has made
\* NCalls evaluations and holds NCalls history entries.
C12_FreshRunExhaustsBudget ==
    restarts = 0 =>
        /\ dpc # "crashed"
        /\ evals <= NCalls
        /\ dpc = "exhausted" =>
              /\ evals = NCalls
              /\ Len(result.func_vals) = NCalls
              /\ result.x_iters[1] = X0
              /\ apc = "idle"

\* C13: once pgbench has partitioned a point, every declared dimension name
\* is a key of exactly one of server_settings and client_settings: the key
\* sets are disjoint, their union is the set of dimension names, the server
\* keys are the names in ALLOWED_SERVER_SETTINGS and the client keys are
\* all the others.
DimNames == {space.dims[i] : i \in 1..Len(space.dims)}
C13_PartitionTotalExclusive ==
    nTrials > 0 =>
        /\ Keys(server_settings) \cap Keys(client_settings) = {}
        /\ Keys(server_settings) \cup Keys(client_settings) = DimNames
        /\ Keys(server_settings) = DimNames \cap space.allowed
        /\ Keys(client_settings) = DimNames \ space.allowed
        /\ Len(server_settings) + Len(client_settings) = Cardinality(DimNames)

\* C13 witness: a partitioned point with names on both sides, under a set
\* of allowed names that also holds a name that is no dimension.
C13_Witness ==
    /\ nTrials > 0 /\ apc = "create_project"
    /\ Keys(server_settings) # {} /\ Keys(client_settings) # {}
    /\ space.allowed \ DimNames # {}

\* C14: when the process has exhausted its budget, its history holds NCalls
\* entries and the result it prints names as best the entry with the
\* minimal value: fun is the minimum of func_vals and x is the point that
\* scored it.
C14_ExhaustedHistoryIsBudget ==
    dpc = "exhausted" =>
        /\ Len(result.func_vals) = NCalls
        /\ Len(result.x_iters) = NCalls
        /\ \A i \in 1..Len(result.func_vals) : result.fun <= result.func_vals[i]
        /\ \E i \in 1..Len(result.func_vals) :
              result.fun = result.func_vals[i] /\ result.x = result.x_iters[i]

\* C15: the steps of one invocation of pgbench are attempted in the order
\* create_project, psql, pgbench, parse, delete_project, each at most once;
\* psql runs only on a provisioned project, pgbench only after psql
\* succeeded, the parser only after pgbench succeeded; delete_project comes
\* after the last of these that was attempted, and when it is called every
\* step whose predecessor succeeded has been attempted (so the benchmark is
\* over).
StepOrder == <<"create_project", "psql", "pgbench", "parse", "delete_project",
               "unlink">>
Rank(step) == CHOOSE i \in 1..Len(StepOrder) : StepOrder[i] = step
C15_StepsInOrder ==
    /\ \A i, j \in 1..Len(inv.steps) :
          i < j => Rank(inv.steps[i]) < Rank(inv.steps[j])
    /\ Did("psql") => Did("create_project") /\ inv.prov = "ok"
    /\ Did("pgbench") => Did("psql") /\ inv.failed # "psql"
    /\ Did("parse") => Did("pgbench") /\ inv.failed \notin {"psql", "pgbench"}
    /\ Did("delete_project") =>
          /\ Did("psql")
          /\ inv.failed # "psql" => Did("pgbench")
          /\ inv.failed \notin {"psql", "pgbench"} => Did("parse")

\* C15 witness: an invocation that went through all five steps and returned.
C15_Witness ==
    /\ Ended /\ inv.out = "return" /\ inv.failed = "none"
    /\ SubSeq(inv.steps, 1, 5) =
          <<"create_project", "psql", "pgbench", "parse", "delete_project">>

\* C16 as stated: at every moment at most one project is live, it is the
\* project of the invocation in flight, and no project is live when no
\* invocation is in flight.
C16_AtMostOneLiveProject ==
    /\ Cardinality(live) <= 1
    /\ \A id \in live : id = project_id /\ apc # "idle"
    /\ apc = "idle" => live = {}

\* C16, amended: at every moment at most one provisioned project has had no
\* delete_project call yet, and it is the project of the invocation in
\* flight; no project gets a second call; when no invocation is in flight
\* every provisioned project has had its one call, and a project that is
\* still live then is one whose call the service refused.
Undeleted == {id \in 1..Len(delCalls) : delCalls[id] = 0}
C16_AtMostOneUndeletedProject ==
    /\ Cardinality(Undeleted) <= 1
    /\ \A id \in Undeleted : id = project_id /\ apc # "idle" /\ id \in live
    /\ \A id \in 1..Len(delCalls) : delCalls[id] <= 1
    /\ apc = "idle" => Undeleted = {}
    /\ live \subseteq 1..Len(delCalls)

\* C16 witness: an invocation is in flight with its project provisioned
\* while a project of an earlier invocation, whose delete_project call was
\* refused, is still live.
C16_Witness ==
    /\ apc = "pgbench" /\ project_id \in Undeleted
    /\ \E id \in live : id # project_id /\ delCalls[id] = 1

\* C17: the history of a campaign never holds more than NCalls trials,
\* however often the process is started again: neither the history in
\* memory nor the one in checkpoint.pkl exceeds the budget, and a process
\* that loaded NCalls trials or more evaluates nothing.
C17_HistoryWithinBudget ==
    /\ Len(result.func_vals) <= NCalls
    /\ Len(checkpoint.res.func_vals) <= NCalls
    /\ Len(x0) >= NCalls /\ ~y0.none => evals = 0

\* C18: every value pgbench returns is a number, and it is either the total
\* parsed from the report of a benchmark that succeeded or exactly the
\* penalty; a measured total is never above the penalty, so no value in the
\* history is above it either.
C18_ReturnIsTotalOrPenalty ==
    /\ (Ended /\ inv.out = "return") =>
          /\ inv.val \in Nat
          /\ IF inv.failed = "none"
             THEN /\ timings.kind = "return" => inv.val = timings.rec.total
                  /\ inv.val <= Penalty
             ELSE inv.val = Penalty
    /\ \A i \in 1..Len(result.func_vals) : result.func_vals[i] <= Penalty

\* C18 witness: a benchmark that ran for exactly TIMEOUT seconds succeeded
\* and pgbench returned its measured total.
C18_Witness ==
    /\ Ended /\ inv.out = "return" /\ inv.failed = "none"
    /\ timings.kind = "return" /\ inv.val = timings.rec.total
    /\ inv.val = Penalty

====
